---- MODULE Spec2Model ----
(***************************************************************************)
(* A model of the OCR extraction pipeline of ExcllentCaseExpert:           *)
(* core/ocr_engine.py (OCREngine) and utils/cache_manager.py               *)
(* (CacheManager), and of the retry wrapper of core/ai_model_provider.py   *)
(* and extract_test_points of core/ai_test_point_analyzer.py.  Texts are   *)
(* sequences of one-character strings, so that strip, split, join and len  *)
(* are computed and not assumed.                                           *)
(***************************************************************************)
EXTENDS Integers, Sequences, FiniteSets, TLC

VARIABLES
    constructed,          \* "none" | "ok" | "failed": outcome of OCREngine.__init__
    use_paddle,           \* self.use_paddle
    use_tesseract,        \* self.use_tesseract
    paddle_ocr,           \* self.paddle_ocr is not None
    tesseract_available,  \* self.tesseract_available
    fs,                   \* the file system: path -> bytes, or NoFile
    cache,                \* the OCR cache directory: key -> entry
    now,                  \* datetime.now(), in days
    pc,                   \* position of the running extract_text call
    file_path,            \* its argument file_path
    max_retries,          \* its argument max_retries
    attempt,              \* loop variable of _extract_text_from_image
    sleeps,               \* the arguments of the time.sleep calls of the request
    paddle_call,          \* "not_called" | "returned": last PaddleOCR invocation
    tesseract_call,       \* "not_called" | "returned": last Tesseract invocation
    paddle_result,        \* local paddle_result of the last attempt or pass
    tesseract_result,     \* local tesseract_result of the last attempt or pass
    text,                 \* the text extract_text returns
    error,                \* the exception extract_text raises, "" when none
    steps,                \* the calls made by the current attempt or pass, in order
    cache_reads,          \* get_ocr_cache calls of the request
    cache_writes,         \* set_ocr_cache calls of the request
    attempts_made,        \* attempts started by the request
    fallbacks,            \* _fallback_single_engine calls of the request
    n_pages,              \* len(images) of the PDF being processed
    page_num,             \* loop variable of _extract_text_from_pdf
    all_text,             \* local all_text of _extract_text_from_pdf
    nreq,                 \* extract_text calls started so far
    m_paddle,             \* argument paddle_result of a direct _merge_results call
    m_tesseract,          \* argument tesseract_result of a direct _merge_results call
    m_out,                \* [ran, value]: whether it was called, and its return value
    last_exception,       \* local last_exception of _extract_text_from_image, "" for None
    page_texts,           \* page_text of every page of the PDF processed so far
    cm_out,               \* [op, key, value, raised]: the last direct CacheManager call
    cm_procs,             \* the callers running inside CacheManager at the same time
    pre_in,               \* argument and library faults of a direct preprocess_image call
    pre_out,              \* [ran, raised, frame]: how that call ended
    keys_used,            \* the cache keys the request computed, in order
    ai,                   \* a provider's chat call inside _retry_with_exponential_backoff
    az                    \* the extract_test_points calls of one analyzer

engine_vars == <<constructed, use_paddle, use_tesseract, paddle_ocr, tesseract_available>>
store_vars == <<fs, cache, now>>
request_vars == <<pc, file_path, max_retries, attempt, sleeps, paddle_call, tesseract_call,
                  paddle_result, tesseract_result, text, error, steps, cache_reads,
                  cache_writes, attempts_made, fallbacks, n_pages, page_num, all_text, nreq,
                  last_exception, page_texts, keys_used>>
merge_vars == <<m_paddle, m_tesseract, m_out>>
cm_vars == <<cm_out, cm_procs>>
pre_vars == <<pre_in, pre_out>>
ai_vars == <<ai, az>>
direct_vars == <<merge_vars, cm_vars, pre_vars, ai_vars>>
vars == <<engine_vars, store_vars, request_vars, direct_vars>>

(***************************************************************************)
(* Bounds of the model.                                                    *)
(***************************************************************************)
MaxRetriesArg == 4
MaxRequests == 2
MaxPages == 3
MaxMergeLines == 2

(***************************************************************************)
(* Text helpers: str.strip, str.split, str.join, str.lower, str(int).      *)
(***************************************************************************)
NL == "\n"
Whitespace == {" ", NL, "\t"}

RECURSIVE LStrip(_)
LStrip(s) == IF s # <<>> /\ Head(s) \in Whitespace THEN LStrip(Tail(s)) ELSE s

RECURSIVE RStrip(_)
RStrip(s) == IF s # <<>> /\ s[Len(s)] \in Whitespace THEN RStrip(SubSeq(s, 1, Len(s) - 1)) ELSE s

Strip(s) == RStrip(LStrip(s))

RECURSIVE Split(_, _)
Split(s, sep) ==
    IF \A i \in 1..Len(s) : s[i] # sep
    THEN <<s>>
    ELSE LET i == CHOOSE k \in 1..Len(s) : s[k] = sep /\ \A j \in 1..(k - 1) : s[j] # sep
         IN <<SubSeq(s, 1, i - 1)>> \o Split(SubSeq(s, i + 1, Len(s)), sep)

RECURSIVE Join(_, _)
Join(sep, parts) ==
    IF parts = <<>> THEN <<>>
    ELSE IF Len(parts) = 1 THEN Head(parts)
    ELSE Head(parts) \o sep \o Join(sep, Tail(parts))

LowerChar(c) ==
    CASE c = "P" -> "p" [] c = "N" -> "n" [] c = "G" -> "g" [] c = "J" -> "j"
      [] c = "D" -> "d" [] c = "F" -> "f" [] c = "E" -> "e" [] c = "T" -> "t"
      [] c = "X" -> "x" [] OTHER -> c

Lower(s) == [i \in 1..Len(s) |-> LowerChar(s[i])]

DigitChar(d) == <<"0", "1", "2", "3", "4", "5", "6", "7", "8", "9">>[d + 1]

RECURSIVE ToStr(_)
ToStr(n) == IF n < 10 THEN <<DigitChar(n)>> ELSE ToStr(n \div 10) \o <<DigitChar(n % 10)>>

RECURSIVE Pow2(_)
Pow2(n) == IF n = 0 THEN 1 ELSE 2 * Pow2(n - 1)

RECURSIVE SeqsUpTo(_, _)
SeqsUpTo(S, n) ==
    IF n = 0 THEN {<<>>}
    ELSE LET shorter == SeqsUpTo(S, n - 1)
         IN shorter \cup {Append(q, x) : q \in shorter, x \in S}

(***************************************************************************)
(* The environment: files, their bytes, and what the two OCR libraries and *)
(* OpenCV can answer.                                                      *)
(***************************************************************************)
NoFile == "no_file"

PathScan == [stem |-> "scan", suffix |-> <<".", "P", "n", "g">>]
PathCopy == [stem |-> "copy", suffix |-> <<".", "J", "P", "G">>]
PathDoc == [stem |-> "doc", suffix |-> <<".", "p", "d", "f">>]
PathNotes == [stem |-> "notes", suffix |-> <<".", "t", "x", "t">>]
PathBroken == [stem |-> "broken", suffix |-> <<".", "j", "p", "e", "g">>]
PathMissing == [stem |-> "missing", suffix |-> <<".", "p", "n", "g">>]
PathGone == [stem |-> "gone", suffix |-> <<".", "t", "x", "t">>]
NoPath == [stem |-> "", suffix |-> <<>>]

Paths == {PathScan, PathBroken, PathDoc, PathNotes, PathMissing, PathGone}

AllPaths == Paths \cup {PathCopy}

InitialFiles ==
    [p \in AllPaths |->
        CASE p = PathScan -> "bytesA"
          [] p = PathCopy -> "bytesA"
          [] p = PathDoc -> "bytesB"
          [] p = PathNotes -> "bytesC"
          [] p = PathBroken -> "garbage"
          [] OTHER -> NoFile]

Contents == {"bytesA", "bytesB", "bytesC", "garbage"}

\* cv2.imread gives None for bytes that are no image.
imread(bytes) == bytes # "garbage"

\* What PaddleOCR.ocr hands back: it raises, or gives the recognised texts
\* of result[0] (none at all when result or result[0] is empty).
PaddleAnswers ==
    {[raises |-> TRUE, texts |-> <<>>]}
        \cup {[raises |-> FALSE, texts |-> t] : t \in {<<>>, << <<" ">> >>, << <<" ", "o", "k">> >>}}

\* What pytesseract.image_to_string hands back: it raises, or gives one string.
TesseractAnswers ==
    {[raises |-> TRUE, text |-> <<>>]}
        \cup {[raises |-> FALSE, text |-> t] :
                t \in {<<>>, <<" ", NL>>, <<"a", NL, " ", NL, "b", " ">>}}

(***************************************************************************)
(* OCREngine: the pure parts.                                              *)
(***************************************************************************)
supported_formats ==
    {<<".", "p", "n", "g">>, <<".", "j", "p", "g">>, <<".", "j", "p", "e", "g">>,
     <<".", "p", "d", "f">>}

RECURSIVE PaddleTextLines(_)
PaddleTextLines(texts) ==
    IF texts = <<>> THEN <<>>
    ELSE IF Head(texts) # <<>>
         THEN <<Strip(Head(texts))>> \o PaddleTextLines(Tail(texts))
         ELSE PaddleTextLines(Tail(texts))

\* _paddle_ocr: [] when the engine is off, when the library raises, or when
\* it found nothing; else the stripped text of every line whose text is truthy.
_paddle_ocr(enabled, answer) ==
    IF ~enabled THEN <<>>
    ELSE IF answer.raises THEN <<>>
    ELSE PaddleTextLines(answer.texts)

RECURSIVE StrippedNonEmpty(_)
StrippedNonEmpty(lines) ==
    IF lines = <<>> THEN <<>>
    ELSE IF Strip(Head(lines)) # <<>>
         THEN <<Strip(Head(lines))>> \o StrippedNonEmpty(Tail(lines))
         ELSE StrippedNonEmpty(Tail(lines))

\* _tesseract_ocr: [] when the engine is off, when the library raises, or
\* when the string is empty; else the stripped non-blank lines of the string.
_tesseract_ocr(enabled, answer) ==
    IF ~enabled THEN <<>>
    ELSE IF answer.raises THEN <<>>
    ELSE IF answer.text = <<>> THEN <<>>
    ELSE StrippedNonEmpty(Split(answer.text, NL))

\* _merge_results with the threshold test written >= instead of >
_merge_results_ge(p_result, t_result) ==
    IF p_result # <<>> /\ t_result = <<>> THEN Join(<<NL>>, p_result)
    ELSE IF t_result # <<>> /\ p_result = <<>> THEN Join(<<NL>>, t_result)
    ELSE IF p_result = <<>> /\ t_result = <<>> THEN <<>>
    ELSE IF 2 * Len(Join(<<NL>>, t_result)) >= 3 * Len(Join(<<NL>>, p_result))
         THEN Join(<<NL>>, t_result)
         ELSE Join(<<NL>>, p_result)

\* _merge_results without the branch for a Tesseract-only result
_merge_results_no_tesseract_only(p_result, t_result) ==
    IF p_result # <<>> /\ t_result = <<>> THEN Join(<<NL>>, p_result)
    ELSE IF p_result = <<>> THEN <<>>
    ELSE IF 2 * Len(Join(<<NL>>, t_result)) > 3 * Len(Join(<<NL>>, p_result))
         THEN Join(<<NL>>, t_result)
         ELSE Join(<<NL>>, p_result)

\* _merge_results
_merge_results(p_result, t_result) ==
    IF p_result # <<>> /\ t_result = <<>> THEN Join(<<NL>>, p_result)
    ELSE IF t_result # <<>> /\ p_result = <<>> THEN Join(<<NL>>, t_result)
    ELSE IF p_result = <<>> /\ t_result = <<>> THEN <<>>
    ELSE LET paddle_text == Join(<<NL>>, p_result)
             tesseract_text == Join(<<NL>>, t_result)
         IN IF 2 * Len(tesseract_text) > 3 * Len(paddle_text)
            THEN tesseract_text
            ELSE paddle_text

\* wait_time written 2 * attempt
wait_time_linear(n) == 2 * n

\* wait_time = 2 ** attempt
wait_time(n) == Pow2(n)

\* Tesseract skipped once PaddleOCR has raised
attempt_calls_tesseract_unless_raised(t_enabled, p_answer) == t_enabled /\ ~p_answer.raises

\* "if self.tesseract_available:" after the try/except around PaddleOCR:
\* Tesseract is invoked whatever PaddleOCR did.
attempt_calls_tesseract(t_enabled, p_answer) == t_enabled

\* the last failed attempt slept on as well
retry_again_after_last(n, retries) == n < retries

\* attempt < max_retries - 1: a failed attempt is followed by a sleep
retry_again(n, retries) == n < retries - 1

\* How one iteration of the retry loop ends:
\*   "return"        the fused text is returned
\*   "ocr_exception" raise OCRException (unreadable image, empty fusion)
\*   "exception"     any other exception (preprocess_image raised)
attempt_outcome(readable, preprocessed, fused) ==
    IF ~readable THEN "ocr_exception"
    ELSE IF ~preprocessed THEN "exception"
    ELSE IF fused = <<>> THEN "ocr_exception"
    ELSE "return"

\* Where the loop of _extract_text_from_image goes after a failed iteration.
after_failure(outcome, n, retries) ==
    IF outcome = "ocr_exception"
    THEN IF retry_again(n, retries) THEN "sleeping" ELSE "degrading"
    ELSE IF retry_again(n, retries) THEN "sleeping" ELSE "attempting"

\* _fallback_single_engine, once the image is read and converted to gray:
\* PaddleOCR first, Tesseract only when PaddleOCR gave no lines.
fallback_uses_paddle(p_enabled, p_lines) == p_enabled /\ p_lines # <<>>

fallback_calls_tesseract(p_enabled, p_lines, t_enabled) ==
    ~fallback_uses_paddle(p_enabled, p_lines) /\ t_enabled

fallback_found(p_enabled, p_lines, t_enabled, t_lines) ==
    fallback_uses_paddle(p_enabled, p_lines)
        \/ (fallback_calls_tesseract(p_enabled, p_lines, t_enabled) /\ t_lines # <<>>)

fallback_text(p_enabled, p_lines, t_enabled, t_lines) ==
    IF fallback_uses_paddle(p_enabled, p_lines) THEN Join(<<NL>>, p_lines)
    ELSE Join(<<NL>>, t_lines)

\* f"--- DI {page_num} YE ---\n{page_text}", DI and YE standing for the two
\* CJK characters of the page marker (one character each).
page_block(n, page_text) ==
    <<"-", "-", "-", " ", "DI", " ">> \o ToStr(n) \o <<" ", "YE", " ", "-", "-", "-", NL>>
        \o page_text

(***************************************************************************)
(* CacheManager: the OCR cache.                                            *)
(***************************************************************************)
OcrTtlDays == 7

\* A cache file <key>.json: kind says what json.load and the field reads
\* find in it, timestamp is the day of its 'timestamp' field, text the JSON
\* string of its 'text' field, file_path its 'file_path' field.
\*   "none"                 the file does not exist
\*   "ok"                   an object with an ISO timestamp and a text
\*   "invalid_json"         no JSON document (also a truncated one)
\*   "not_object"           a JSON value that is no object (list, string, null)
\*   "no_timestamp"         an object without 'timestamp'
\*   "timestamp_not_str"    an object whose 'timestamp' is no string
\*   "timestamp_unparsable" an object whose 'timestamp' is no ISO date
\*   "no_text"              an object without 'text'
NoEntry == [kind |-> "none", timestamp |-> 0, file_path |-> "", text |-> <<>>]

DamagedKinds ==
    {"invalid_json", "not_object", "no_timestamp", "timestamp_not_str",
     "timestamp_unparsable", "no_text"}

\* json.dump(..., ensure_ascii=False) of a str: the characters JSON escapes
json_escape_char(c) ==
    CASE c = NL -> <<"\\", "n">>
      [] c = "\t" -> <<"\\", "t">>
      [] c = "\"" -> <<"\\", "\"">>
      [] c = "\\" -> <<"\\", "\\">>
      [] OTHER -> <<c>>

RECURSIVE json_escape(_)
json_escape(s) == IF s = <<>> THEN <<>> ELSE json_escape_char(Head(s)) \o json_escape(Tail(s))

\* json.load of a JSON string
json_unescape_char(c) ==
    CASE c = "n" -> NL
      [] c = "t" -> "\t"
      [] OTHER -> c

RECURSIVE json_unescape(_)
json_unescape(s) ==
    IF s = <<>> THEN <<>>
    ELSE IF Head(s) = "\\" /\ Len(s) >= 2
         THEN <<json_unescape_char(s[2])>> \o json_unescape(Tail(Tail(s)))
         ELSE <<Head(s)>> \o json_unescape(Tail(s))

\* _get_file_hash keyed by the name of the file instead of its bytes
_get_file_hash_of_name(files, path) == <<"md5", path.stem>>

\* _get_file_hash: the MD5 of the bytes of the file at the path
_get_file_hash(files, path) == <<"md5", files[path]>>

\* The names a file of the cache directory can have.
CacheKeys == {<<"md5", d>> : d \in Contents \cup {p.stem : p \in AllPaths}}

\* the expiry test written >=
expired_ge(entry, today) == today - entry.timestamp >= OcrTtlDays

\* now - cached_time > timedelta(days=7)
expired(entry, today) == today - entry.timestamp > OcrTtlDays

\* The exception the try block of get_ocr_cache ends in, "" when it returns.
cache_read_exception(entry, today) ==
    IF entry.kind = "invalid_json" THEN "JSONDecodeError"
    ELSE IF entry.kind = "not_object" THEN "TypeError"
    ELSE IF entry.kind = "no_timestamp" THEN "KeyError"
    ELSE IF entry.kind = "timestamp_not_str" THEN "TypeError"
    ELSE IF entry.kind = "timestamp_unparsable" THEN "ValueError"
    ELSE IF expired(entry, today) THEN ""
    ELSE IF entry.kind = "no_text" THEN "KeyError"
    ELSE ""

\* except (json.JSONDecodeError, KeyError, ValueError)
caught_by_get(exception) == exception \in {"JSONDecodeError", "KeyError", "ValueError"}

\* The exception get_ocr_cache lets out, "" when it returns.
get_ocr_cache_raises(store, key, today) ==
    IF store[key].kind = "none" THEN ""
    ELSE IF caught_by_get(cache_read_exception(store[key], today)) THEN ""
    ELSE cache_read_exception(store[key], today)

\* get_ocr_cache: its return value (<<>> stands for None too: the caller
\* tests the value for truth).
get_ocr_cache(store, key, today) ==
    IF store[key].kind = "none" THEN <<>>
    ELSE IF cache_read_exception(store[key], today) # "" THEN <<>>
    ELSE IF expired(store[key], today) THEN <<>>
    ELSE json_unescape(store[key].text)

\* get_ocr_cache: the cache directory it leaves behind (cache_file.unlink()).
\* the cache file removed by every lookup that finds it
store_after_get_always_unlinks(store, key, today) ==
    [store EXCEPT ![key] = NoEntry]

store_after_get(store, key, today) ==
    IF store[key].kind = "none" THEN store
    ELSE IF caught_by_get(cache_read_exception(store[key], today))
         THEN [store EXCEPT ![key] = NoEntry]
    ELSE IF cache_read_exception(store[key], today) # "" THEN store
    ELSE IF expired(store[key], today) THEN [store EXCEPT ![key] = NoEntry]
    ELSE store

\* set_ocr_cache
set_ocr_cache(store, key, path, value, today) ==
    [store EXCEPT ![key] = [kind |-> "ok", timestamp |-> today, file_path |-> path.stem,
                            text |-> json_escape(value)]]

(***************************************************************************)
(* OCREngine.__init__                                                      *)
(***************************************************************************)
\* if not use_paddle and not use_tesseract: raise OCRException
construction_fails(up, ut) == ~up /\ ~ut

\* _init_paddle_ocr: self.paddle_ocr is set only when the engine is asked
\* for and PaddleOCR(lang='ch') does not raise.
_init_paddle_ocr(up, library_ok) == up /\ library_ok

\* _init_tesseract: self.tesseract_available
_init_tesseract(ut, library_ok) == ut /\ library_ok

Construct(up, ut, paddle_ok, tesseract_ok) ==
    /\ constructed = "none"
    /\ use_paddle' = up
    /\ use_tesseract' = ut
    /\ IF construction_fails(up, ut)
       THEN /\ constructed' = "failed"
            /\ UNCHANGED <<paddle_ocr, tesseract_available>>
       ELSE /\ constructed' = "ok"
            /\ paddle_ocr' = _init_paddle_ocr(up, paddle_ok)
            /\ tesseract_available' = _init_tesseract(ut, tesseract_ok)
    /\ UNCHANGED <<store_vars, request_vars, direct_vars>>

(***************************************************************************)
(* OCREngine.extract_text                                                  *)
(***************************************************************************)
\* the format validated before the existence of the file
validate_format_first(bytes, suffix) ==
    IF Lower(suffix) \notin supported_formats THEN "unsupported_format"
    ELSE IF bytes = NoFile THEN "file_not_found"
    ELSE ""

\* the suffix compared without .lower()
validate_case_sensitive(bytes, suffix) ==
    IF bytes = NoFile THEN "file_not_found"
    ELSE IF suffix \notin supported_formats THEN "unsupported_format"
    ELSE ""

\* The two validations, in the order of the code: "" when both pass.
validate(bytes, suffix) ==
    IF bytes = NoFile THEN "file_not_found"
    ELSE IF Lower(suffix) \notin supported_formats THEN "unsupported_format"
    ELSE ""

Idle == pc \in {"idle", "done", "failed"}

ExtractText(path, retries) ==
    /\ constructed = "ok"
    /\ Idle
    /\ nreq' = nreq + 1
    /\ file_path' = path
    /\ max_retries' = retries
    /\ attempt' = 0
    /\ sleeps' = <<>>
    /\ paddle_call' = "not_called"
    /\ tesseract_call' = "not_called"
    /\ paddle_result' = <<>>
    /\ tesseract_result' = <<>>
    /\ text' = <<>>
    /\ steps' = <<>>
    /\ cache_reads' = 0
    /\ cache_writes' = 0
    /\ attempts_made' = 0
    /\ fallbacks' = 0
    /\ n_pages' = 0
    /\ page_num' = 0
    /\ all_text' = <<>>
    /\ last_exception' = ""
    /\ page_texts' = <<>>
    /\ keys_used' = <<>>
    /\ error' = validate(fs[path], path.suffix)
    /\ pc' = IF validate(fs[path], path.suffix) = "" THEN "lookup" ELSE "failed"
    /\ UNCHANGED <<engine_vars, store_vars, direct_vars>>

\* the cached text never used
cache_hit_ignored(cached_text) == FALSE

\* if cached_text: return cached_text
cache_hit(cached_text) == cached_text # <<>>

\* cached_text = self.cache_manager.get_ocr_cache(file_path), and the branch
\* to the PDF or the image path on a miss.  An exception get_ocr_cache lets
\* out leaves extract_text as it is (handle_exceptions(reraise=True)).
CheckCache ==
    /\ pc = "lookup"
    /\ LET key == _get_file_hash(fs, file_path)
           cached_text == get_ocr_cache(cache, key, now)
           raised == get_ocr_cache_raises(cache, key, now)
       IN /\ cache' = store_after_get(cache, key, now)
          /\ cache_reads' = cache_reads + 1
          /\ keys_used' = Append(keys_used, key)
          /\ IF raised # ""
             THEN /\ text' = text
                  /\ error' = raised
                  /\ pc' = "failed"
             ELSE IF cache_hit(cached_text)
             THEN /\ text' = cached_text
                  /\ error' = error
                  /\ pc' = "done"
             ELSE /\ text' = text
                  /\ error' = error
                  /\ pc' = IF Lower(file_path.suffix) = <<".", "p", "d", "f">>
                           THEN "pdf_convert"
                           ELSE "attempting"
    /\ UNCHANGED <<engine_vars, fs, now, direct_vars, file_path, max_retries, attempt, sleeps,
                   paddle_call, tesseract_call, paddle_result, tesseract_result,
                   steps, attempts_made, fallbacks, cache_writes, n_pages, page_num,
                   all_text, nreq, last_exception, page_texts>>

\* if text: self.cache_manager.set_ocr_cache(file_path, text)
should_cache(result) == result # <<>>

\* The end of extract_text.  open(cache_file, 'w') can raise OSError (a
\* directory it may not write to): the exception leaves extract_text as it is.
StoreResult(write_ok) ==
    /\ pc = "store"
    /\ IF should_cache(text) /\ ~write_ok
       THEN /\ pc' = "failed"
            /\ error' = "OSError"
            /\ UNCHANGED <<cache, cache_writes, keys_used>>
       ELSE IF should_cache(text)
       THEN /\ cache' = set_ocr_cache(cache, _get_file_hash(fs, file_path), file_path,
                                            text, now)
            /\ cache_writes' = cache_writes + 1
            /\ keys_used' = Append(keys_used, _get_file_hash(fs, file_path))
            /\ pc' = "done"
            /\ error' = error
       ELSE /\ pc' = "done"
            /\ error' = error
            /\ UNCHANGED <<cache, cache_writes, keys_used>>
    /\ UNCHANGED <<engine_vars, fs, now, direct_vars, file_path, max_retries, attempt, sleeps,
                   paddle_call, tesseract_call, paddle_result, tesseract_result, text,
                   steps, cache_reads, attempts_made, fallbacks, n_pages, page_num,
                   all_text, nreq, last_exception, page_texts>>

(***************************************************************************)
(* OCREngine._extract_text_from_image                                      *)
(***************************************************************************)
call_state(enabled, answer) ==
    IF ~enabled THEN "not_called" ELSE IF answer.raises THEN "raised" ELSE "returned"

\* the engines called on the image as it was read, before preprocess_image
attempt_steps_engines_first(readable, recognised, p_on, t_on) ==
    <<"imread">>
        \o (IF p_on THEN <<"paddle">> ELSE <<>>)
        \o (IF t_on THEN <<"tesseract">> ELSE <<>>)
        \o (IF readable THEN <<"preprocess">> ELSE <<>>)
        \o (IF recognised THEN <<"merge">> ELSE <<>>)

\* The calls of one iteration, in the order of its statements: cv2.imread,
\* preprocess_image, _paddle_ocr, _tesseract_ocr, _merge_results.
attempt_steps(readable, recognised, p_on, t_on) ==
    <<"imread">>
        \o (IF readable THEN <<"preprocess">> ELSE <<>>)
        \o (IF p_on THEN <<"paddle">> ELSE <<>>)
        \o (IF t_on THEN <<"tesseract">> ELSE <<>>)
        \o (IF recognised THEN <<"merge">> ELSE <<>>)

\* One iteration of "for attempt in range(max_retries)": imread, preprocess,
\* both engines, fusion, and the except clause the iteration ends in.
Attempt(preprocessed, p_answer, t_answer) ==
    /\ pc = "attempting"
    /\ attempt < max_retries
    /\ LET readable == imread(fs[file_path])
           recognised == readable /\ preprocessed
           t_on == recognised /\ attempt_calls_tesseract(tesseract_available, p_answer)
           p_lines == _paddle_ocr(recognised /\ paddle_ocr, p_answer)
           t_lines == _tesseract_ocr(t_on, t_answer)
           fused == _merge_results(p_lines, t_lines)
           outcome == attempt_outcome(readable, preprocessed, fused)
           next == after_failure(outcome, attempt, max_retries)
       IN /\ attempts_made' = attempts_made + 1
          /\ paddle_result' = p_lines
          /\ tesseract_result' = t_lines
          /\ paddle_call' = call_state(recognised /\ paddle_ocr, p_answer)
          /\ tesseract_call' = call_state(t_on, t_answer)
          /\ steps' = attempt_steps(readable, recognised, recognised /\ paddle_ocr, t_on)
          /\ IF outcome = "return"
             THEN /\ text' = fused
                  /\ pc' = "store"
                  /\ UNCHANGED <<attempt, last_exception>>
             ELSE /\ text' = text
                  /\ last_exception' = IF ~readable THEN "read_failed"
                                       ELSE IF ~preprocessed THEN "ocr_error"
                                       ELSE "empty_result"
                  /\ pc' = next
                  /\ attempt' = IF next = "attempting" THEN attempt + 1 ELSE attempt
    /\ UNCHANGED <<engine_vars, store_vars, direct_vars, file_path, max_retries, sleeps, error,
                   cache_reads, cache_writes, fallbacks, n_pages, page_num, all_text, nreq,
                   page_texts, keys_used>>

\* time.sleep(wait_time), then the next iteration
Sleep ==
    /\ pc = "sleeping"
    /\ sleeps' = Append(sleeps, wait_time(attempt))
    /\ attempt' = attempt + 1
    /\ pc' = "attempting"
    /\ UNCHANGED <<engine_vars, store_vars, direct_vars, file_path, max_retries, paddle_call,
                   tesseract_call, paddle_result, tesseract_result, text, error, steps,
                   cache_reads, cache_writes, attempts_made, fallbacks, n_pages, page_num,
                   all_text, nreq, last_exception, page_texts, keys_used>>

\* The loop is over without a return:
\* raise last_exception or OCRException(...)
LoopExit ==
    /\ pc = "attempting"
    /\ attempt >= max_retries
    /\ pc' = "failed"
    /\ error' = IF last_exception # "" THEN last_exception ELSE "ocr_failed"
    /\ UNCHANGED <<engine_vars, store_vars, direct_vars, file_path, max_retries, attempt,
                   sleeps, paddle_call, tesseract_call, paddle_result, tesseract_result,
                   text, steps, cache_reads, cache_writes, attempts_made, fallbacks,
                   n_pages, page_num, all_text, nreq, last_exception, page_texts, keys_used>>

(***************************************************************************)
(* OCREngine._fallback_single_engine                                       *)
(***************************************************************************)
Fallback(gray_ok, p_answer, t_answer) ==
    /\ pc = "degrading"
    /\ LET readable == imread(fs[file_path])
           framed == readable /\ gray_ok
           p_on == framed /\ paddle_ocr
           p_lines == _paddle_ocr(p_on, p_answer)
           t_on == framed /\ fallback_calls_tesseract(paddle_ocr, p_lines, tesseract_available)
           t_lines == _tesseract_ocr(t_on, t_answer)
       IN /\ fallbacks' = fallbacks + 1
          /\ paddle_result' = p_lines
          /\ tesseract_result' = t_lines
          /\ paddle_call' = call_state(p_on, p_answer)
          /\ tesseract_call' = call_state(t_on, t_answer)
          /\ steps' = <<"imread">>
                        \o (IF readable THEN <<"gray">> ELSE <<>>)
                        \o (IF p_on THEN <<"paddle">> ELSE <<>>)
                        \o (IF t_on THEN <<"tesseract">> ELSE <<>>)
          /\ IF ~readable
             THEN /\ pc' = "failed"
                  /\ error' = "read_failed"
                  /\ text' = text
             ELSE IF ~gray_ok
             THEN /\ pc' = "failed"
                  /\ error' = "fallback_failed"
                  /\ text' = text
             ELSE IF fallback_found(paddle_ocr, p_lines, tesseract_available, t_lines)
             THEN /\ pc' = "store"
                  /\ error' = error
                  /\ text' = fallback_text(paddle_ocr, p_lines, tesseract_available, t_lines)
             ELSE /\ pc' = "failed"
                  /\ error' = "all_engines_failed"
                  /\ text' = text
    /\ UNCHANGED <<engine_vars, store_vars, direct_vars, file_path, max_retries, attempt,
                   sleeps, cache_reads, cache_writes, attempts_made, n_pages, page_num,
                   all_text, nreq, last_exception, page_texts, keys_used>>

(***************************************************************************)
(* OCREngine._extract_text_from_pdf                                        *)
(***************************************************************************)
\* from pdf2image import convert_from_path; images = convert_from_path(...)
PdfConvert(outcome, n) ==
    /\ pc = "pdf_convert"
    /\ IF outcome = "import_error"
       THEN /\ pc' = "failed"
            /\ error' = "pdf2image_missing"
            /\ UNCHANGED <<n_pages, page_num>>
       ELSE IF outcome = "convert_error"
       THEN /\ pc' = "failed"
            /\ error' = "pdf_failed"
            /\ UNCHANGED <<n_pages, page_num>>
       ELSE IF n = 0
       THEN /\ pc' = "failed"
            /\ error' = "pdf_empty"
            /\ UNCHANGED <<n_pages, page_num>>
       ELSE /\ pc' = "pdf_page"
            /\ error' = error
            /\ n_pages' = n
            /\ page_num' = 1
    /\ UNCHANGED <<engine_vars, store_vars, direct_vars, file_path, max_retries, attempt,
                   sleeps, paddle_call, tesseract_call, paddle_result, tesseract_result,
                   text, steps, cache_reads, cache_writes, attempts_made, fallbacks,
                   all_text, nreq, last_exception, page_texts, keys_used>>

\* One iteration of "for page_num, pil_image in enumerate(images, 1)"
PdfPage(preprocessed, p_answer, t_answer) ==
    /\ pc = "pdf_page"
    /\ page_num <= n_pages
    /\ LET p_lines == _paddle_ocr(preprocessed /\ paddle_ocr, p_answer)
           t_lines == _tesseract_ocr(preprocessed /\ tesseract_available, t_answer)
           page_text == _merge_results(p_lines, t_lines)
       IN /\ paddle_result' = p_lines
          /\ tesseract_result' = t_lines
          /\ paddle_call' = call_state(preprocessed /\ paddle_ocr, p_answer)
          /\ tesseract_call' = call_state(preprocessed /\ tesseract_available, t_answer)
          /\ steps' = <<"preprocess">>
                        \o (IF preprocessed /\ paddle_ocr THEN <<"paddle">> ELSE <<>>)
                        \o (IF preprocessed /\ tesseract_available
                            THEN <<"tesseract">> ELSE <<>>)
                        \o (IF preprocessed THEN <<"merge">> ELSE <<>>)
          /\ IF ~preprocessed
             THEN /\ pc' = "failed"
                  /\ error' = "pdf_failed"
                  /\ UNCHANGED <<all_text, page_num, page_texts>>
             ELSE /\ pc' = pc
                  /\ error' = error
                  /\ page_num' = page_num + 1
                  /\ page_texts' = Append(page_texts, page_text)
                  /\ all_text' = IF page_text # <<>>
                                 THEN Append(all_text, page_block(page_num, page_text))
                                 ELSE all_text
    /\ UNCHANGED <<engine_vars, store_vars, direct_vars, file_path, max_retries, attempt,
                   sleeps, text, cache_reads, cache_writes, attempts_made, fallbacks,
                   n_pages, nreq, last_exception, keys_used>>

\* After the last page: raise when all_text is empty, else "\n\n".join(all_text)
PdfFinish ==
    /\ pc = "pdf_page"
    /\ page_num > n_pages
    /\ IF all_text = <<>>
       THEN /\ pc' = "failed"
            /\ error' = "pdf_all_pages_empty"
            /\ text' = text
       ELSE /\ pc' = "store"
            /\ error' = error
            /\ text' = Join(<<NL, NL>>, all_text)
    /\ UNCHANGED <<engine_vars, store_vars, direct_vars, file_path, max_retries, attempt,
                   sleeps, paddle_call, tesseract_call, paddle_result, tesseract_result,
                   steps, cache_reads, cache_writes, attempts_made, fallbacks, n_pages,
                   page_num, all_text, nreq, last_exception, page_texts, keys_used>>

(***************************************************************************)
(* The specification of the engine and its requests.                       *)
(***************************************************************************)
\* extract_text has not been called.
NoRequest ==
    /\ pc = "idle"
    /\ file_path = NoPath
    /\ max_retries = 0
    /\ attempt = 0
    /\ sleeps = <<>>
    /\ paddle_call = "not_called"
    /\ tesseract_call = "not_called"
    /\ paddle_result = <<>>
    /\ tesseract_result = <<>>
    /\ text = <<>>
    /\ error = ""
    /\ steps = <<>>
    /\ cache_reads = 0
    /\ cache_writes = 0
    /\ attempts_made = 0
    /\ fallbacks = 0
    /\ n_pages = 0
    /\ page_num = 0
    /\ all_text = <<>>
    /\ nreq = 0
    /\ last_exception = ""
    /\ page_texts = <<>>
    /\ keys_used = <<>>

InitEngine ==
    /\ constructed = "none"
    /\ use_paddle = FALSE
    /\ use_tesseract = FALSE
    /\ paddle_ocr = FALSE
    /\ tesseract_available = FALSE
    /\ fs = InitialFiles
    /\ cache = [k \in CacheKeys |-> NoEntry]
    /\ now = 0
    /\ NoRequest

\* No direct call of a component has been made.
NoMergeCall ==
    /\ m_paddle = <<>>
    /\ m_tesseract = <<>>
    /\ m_out = [ran |-> FALSE, value |-> <<>>]

\* cm_out.day is the day of the call; cm_out.sets keeps, for every cache
\* file, the last set_ocr_cache call made on it: its text and its day.
NoCacheCall ==
    /\ cm_out = [op |-> "none", key |-> <<>>, value |-> <<>>, raised |-> "", calls |-> 0,
                 day |-> 0,
                 sets |-> [k \in CacheKeys |-> [done |-> FALSE, value |-> <<>>, day |-> 0]]]
    /\ cm_procs = <<>>

NoPreprocessCall ==
    /\ pre_in = [channels |-> 0, faults |-> {}, skew |-> "none"]
    /\ pre_out = [ran |-> FALSE, raised |-> FALSE, frame |-> <<>>]

\* No provider and no analyzer has been called.
NoAiCall ==
    /\ ai = [pc |-> "idle", max_retries |-> 0, attempt |-> 0, events |-> <<>>,
             excs |-> <<>>, sleeps |-> <<>>, wait |-> 0, raised |-> "", message |-> "",
             content |-> ""]
    /\ az = [pc |-> "idle", text |-> "", attempt |-> 0, chats |-> 0, result |-> "",
             testing |-> FALSE, cache |-> {}, history |-> <<>>]

Init ==
    /\ InitEngine
    /\ NoMergeCall
    /\ NoCacheCall
    /\ NoPreprocessCall
    /\ NoAiCall

\* A library answers only when it is called, and a step only has an outcome
\* when it is reached.
PaddleAnswersWhen(called) ==
    IF called THEN PaddleAnswers ELSE {[raises |-> FALSE, texts |-> <<>>]}

TesseractAnswersWhen(called) ==
    IF called THEN TesseractAnswers ELSE {[raises |-> FALSE, text |-> <<>>]}

OutcomesWhen(reached) == IF reached THEN BOOLEAN ELSE {FALSE}

Next ==
    \/ \E up \in BOOLEAN, ut \in BOOLEAN :
          \E paddle_ok \in OutcomesWhen(up), tesseract_ok \in OutcomesWhen(ut) :
             Construct(up, ut, paddle_ok, tesseract_ok)
    \/ /\ nreq < MaxRequests
       /\ \E path \in Paths, retries \in 0..MaxRetriesArg : ExtractText(path, retries)
    \/ CheckCache
    \/ \E preprocessed \in OutcomesWhen(pc = "attempting" /\ imread(fs[file_path])) :
          \E p_answer \in PaddleAnswersWhen(preprocessed /\ paddle_ocr),
             t_answer \in TesseractAnswersWhen(preprocessed /\ tesseract_available) :
             Attempt(preprocessed, p_answer, t_answer)
    \/ Sleep
    \/ LoopExit
    \/ \E gray_ok \in OutcomesWhen(pc = "degrading" /\ imread(fs[file_path])) :
          \E p_answer \in PaddleAnswersWhen(gray_ok /\ paddle_ocr) :
             \E t_answer \in TesseractAnswersWhen(
                     gray_ok /\ fallback_calls_tesseract(
                         paddle_ocr, _paddle_ocr(paddle_ocr, p_answer),
                         tesseract_available)) :
                Fallback(gray_ok, p_answer, t_answer)
    \/ \E outcome \in {"import_error", "convert_error", "ok"} :
          \E n \in (IF outcome = "ok" THEN 0..MaxPages ELSE {0}) : PdfConvert(outcome, n)
    \/ \E preprocessed \in BOOLEAN :
          \E p_answer \in PaddleAnswersWhen(preprocessed /\ paddle_ocr),
             t_answer \in TesseractAnswersWhen(preprocessed /\ tesseract_available) :
             PdfPage(preprocessed, p_answer, t_answer)
    \/ PdfFinish
    \/ StoreResult(TRUE)

Spec == Init /\ [][Next]_vars

(***************************************************************************)
(* The specification of _merge_results called on its own.                  *)
(***************************************************************************)
MergeLines == {<<>>, <<"a">>, <<"a", "b">>}

InitMerge ==
    /\ InitEngine
    /\ NoCacheCall
    /\ NoPreprocessCall
    /\ NoAiCall
    /\ m_paddle \in SeqsUpTo(MergeLines, MaxMergeLines)
    /\ m_tesseract \in SeqsUpTo(MergeLines, MaxMergeLines)
    /\ m_out = [ran |-> FALSE, value |-> <<>>]

MergeCall ==
    /\ ~m_out.ran
    /\ m_out' = [ran |-> TRUE, value |-> _merge_results(m_paddle, m_tesseract)]
    /\ UNCHANGED <<engine_vars, store_vars, request_vars, m_paddle, m_tesseract, cm_vars,
                   pre_vars, ai_vars>>

NextMerge == MergeCall

SpecMerge == InitMerge /\ [][NextMerge]_vars

(***************************************************************************)
(* The specification of the cache as extract_text uses it: one engine,     *)
(* requests for two paths that hold the same bytes, a clock, a file that   *)
(* is edited between requests, cache files damaged from outside, and a     *)
(* cache directory that may refuse a write.                                *)
(***************************************************************************)
MaxNow == 8
MaxCacheRequests == 2

CachePaths == {PathScan, PathCopy}

InitCache ==
    /\ constructed = "ok"
    /\ use_paddle = TRUE
    /\ use_tesseract = FALSE
    /\ paddle_ocr = TRUE
    /\ tesseract_available = FALSE
    /\ fs = InitialFiles
    /\ cache = [k \in CacheKeys |-> NoEntry]
    /\ now = 0
    /\ NoRequest
    /\ NoMergeCall
    /\ NoCacheCall
    /\ NoPreprocessCall
    /\ NoAiCall

\* datetime.now() moves on between two requests.
Tick(days) ==
    /\ Idle
    /\ now + days <= MaxNow
    /\ now' = now + days
    /\ UNCHANGED <<engine_vars, fs, cache, request_vars, direct_vars>>

\* The user edits a file between two requests.
Modify(path, bytes) ==
    /\ Idle
    /\ fs[path] # bytes
    /\ fs' = [fs EXCEPT ![path] = bytes]
    /\ UNCHANGED <<engine_vars, cache, now, request_vars, direct_vars>>

\* Something outside the program leaves a cache file that is no entry.
Damage(key, kind) ==
    /\ Idle
    /\ cache[key] # [NoEntry EXCEPT !.kind = kind, !.timestamp = now]
    /\ cache' = [cache EXCEPT ![key] = [NoEntry EXCEPT !.kind = kind, !.timestamp = now]]
    /\ UNCHANGED <<engine_vars, fs, now, request_vars, direct_vars>>

NextCache ==
    \/ /\ nreq < MaxCacheRequests
       /\ \E path \in CachePaths, retries \in 1..2 : ExtractText(path, retries)
    \/ CheckCache
    \/ \E preprocessed \in OutcomesWhen(pc = "attempting" /\ imread(fs[file_path])) :
          \E p_answer \in PaddleAnswersWhen(preprocessed /\ paddle_ocr),
             t_answer \in TesseractAnswersWhen(preprocessed /\ tesseract_available) :
             Attempt(preprocessed, p_answer, t_answer)
    \/ Sleep
    \/ LoopExit
    \/ \E gray_ok \in OutcomesWhen(pc = "degrading" /\ imread(fs[file_path])) :
          \E p_answer \in PaddleAnswersWhen(gray_ok /\ paddle_ocr) :
             \E t_answer \in TesseractAnswersWhen(
                     gray_ok /\ fallback_calls_tesseract(
                         paddle_ocr, _paddle_ocr(paddle_ocr, p_answer),
                         tesseract_available)) :
                Fallback(gray_ok, p_answer, t_answer)
    \/ \E write_ok \in BOOLEAN : StoreResult(write_ok)
    \/ \E days \in {OcrTtlDays, OcrTtlDays + 1} : Tick(days)
    \/ \E bytes \in {"bytesA", "bytesC"} : Modify(PathScan, bytes)
    \/ \E kind \in DamagedKinds : Damage(<<"md5", "bytesA">>, kind)

SpecCache == InitCache /\ [][NextCache]_vars

(***************************************************************************)
(* The specification of CacheManager called on its own: get_ocr_cache and  *)
(* set_ocr_cache one after the other, a clock, and a cache directory that  *)
(* may hold a damaged file to begin with.                                  *)
(***************************************************************************)
MaxCmCalls == 3

CmPaths == {PathScan, PathDoc}

CmValues == {<<"h", "i">>, <<"a", NL, "\"">>, <<"\\", "n">>}

InitialEntries == {NoEntry} \cup {[NoEntry EXCEPT !.kind = kind] : kind \in DamagedKinds}

InitCM ==
    /\ constructed = "none"
    /\ use_paddle = FALSE
    /\ use_tesseract = FALSE
    /\ paddle_ocr = FALSE
    /\ tesseract_available = FALSE
    /\ fs = InitialFiles
    /\ \E entry \in InitialEntries :
          cache = [k \in CacheKeys |-> IF k = <<"md5", "bytesA">> THEN entry ELSE NoEntry]
    /\ now = 0
    /\ NoRequest
    /\ NoMergeCall
    /\ NoCacheCall
    /\ NoPreprocessCall
    /\ NoAiCall

\* cache_manager.get_ocr_cache(path)
CmGet(path) ==
    /\ cm_out.calls < MaxCmCalls
    /\ LET key == _get_file_hash(fs, path)
       IN /\ cache' = store_after_get(cache, key, now)
          /\ cm_out' = [cm_out EXCEPT !.op = "get",
                                      !.key = key,
                                      !.value = get_ocr_cache(cache, key, now),
                                      !.raised = get_ocr_cache_raises(cache, key, now),
                                      !.calls = @ + 1,
                                      !.day = now]
    /\ UNCHANGED <<engine_vars, fs, now, request_vars, merge_vars, cm_procs, pre_vars, ai_vars>>

\* cache_manager.set_ocr_cache(path, value)
CmSet(path, value) ==
    /\ cm_out.calls < MaxCmCalls
    /\ LET key == _get_file_hash(fs, path)
       IN /\ cache' = set_ocr_cache(cache, key, path, value, now)
          /\ cm_out' = [cm_out EXCEPT !.op = "set",
                                      !.key = key,
                                      !.value = value,
                                      !.raised = "",
                                      !.calls = @ + 1,
                                      !.day = now,
                                      !.sets[key] = [done |-> TRUE, value |-> value,
                                                     day |-> now]]
    /\ UNCHANGED <<engine_vars, fs, now, request_vars, merge_vars, cm_procs, pre_vars, ai_vars>>

NextCM ==
    \/ \E path \in CmPaths : CmGet(path)
    \/ \E path \in CmPaths, value \in CmValues : CmSet(path, value)
    \/ \E days \in {OcrTtlDays, OcrTtlDays + 1} : Tick(days)

SpecCM == InitCM /\ [][NextCM]_vars

(***************************************************************************)
(* The specification of CacheManager called by several requests at once on *)
(* one cache file.  Every statement of get_ocr_cache and set_ocr_cache     *)
(* that touches the file is a step of its own; the file system is POSIX:   *)
(* open(..., 'w') truncates, the text reaches the file when it is closed,  *)
(* and unlink takes the name away from a file a writer still has open.     *)
(***************************************************************************)
MaxProcs == 2

Procs == 1..MaxProcs

ConcKey == <<"md5", "bytesA">>

ConcValues == {<<"v">>, <<"w", "w">>}

OldEntry == [kind |-> "ok", timestamp |-> 0, file_path |-> "scan", text |-> <<"o", "l", "d">>]

NoCall == [op |-> "none", pc |-> "idle", value |-> <<>>, linked |-> FALSE, ret |-> <<>>,
           raised |-> "", rank |-> 0]

InitConc ==
    /\ constructed = "none"
    /\ use_paddle = FALSE
    /\ use_tesseract = FALSE
    /\ paddle_ocr = FALSE
    /\ tesseract_available = FALSE
    /\ fs = InitialFiles
    /\ \E entry \in {NoEntry, OldEntry} :
          cache = [k \in CacheKeys |-> IF k = ConcKey THEN entry ELSE NoEntry]
    /\ now \in {0, OcrTtlDays + 1}
    /\ NoRequest
    /\ NoMergeCall
    /\ cm_out = [op |-> "none", key |-> <<>>, value |-> <<>>, raised |-> "", calls |-> 0,
                 day |-> 0,
                 sets |-> [k \in CacheKeys |-> [done |-> FALSE, value |-> <<>>, day |-> 0]]]
    /\ cm_procs = [p \in Procs |-> NoCall]
    /\ NoPreprocessCall
    /\ NoAiCall

\* How many calls have ended.
RECURSIVE Ended(_, _)
Ended(procs, n) ==
    IF n = 0 THEN 0
    ELSE Ended(procs, n - 1) + (IF procs[n].pc = "done" THEN 1 ELSE 0)

Finish(procs, p, ret, raised) ==
    [procs EXCEPT ![p].pc = "done", ![p].ret = ret, ![p].raised = raised,
                  ![p].rank = Ended(procs, Len(procs)) + 1]

\* get_ocr_cache: if not cache_file.exists(): return None
GetExists(p) ==
    /\ cm_procs[p].pc = "idle"
    /\ LET called == [cm_procs EXCEPT ![p].op = "get"]
       IN cm_procs' = IF cache[ConcKey].kind = "none"
                      THEN Finish(called, p, <<>>, "")
                      ELSE [called EXCEPT ![p].pc = "open"]
    /\ UNCHANGED <<engine_vars, store_vars, request_vars, merge_vars, cm_out, pre_vars, ai_vars>>

\* get_ocr_cache: open, json.load, the expiry test and the return of the
\* text, on the file as it is at this moment.
GetLoad(p) ==
    /\ cm_procs[p].pc = "open"
    /\ LET entry == cache[ConcKey]
           exception == cache_read_exception(entry, now)
       IN cm_procs' =
             IF entry.kind = "none" THEN Finish(cm_procs, p, <<>>, "FileNotFoundError")
             ELSE IF caught_by_get(exception) THEN [cm_procs EXCEPT ![p].pc = "unlink"]
             ELSE IF exception # "" THEN Finish(cm_procs, p, <<>>, exception)
             ELSE IF expired(entry, now) THEN [cm_procs EXCEPT ![p].pc = "unlink"]
             ELSE Finish(cm_procs, p, json_unescape(entry.text), "")
    /\ UNCHANGED <<engine_vars, store_vars, request_vars, merge_vars, cm_out, pre_vars, ai_vars>>

\* get_ocr_cache: cache_file.unlink(); return None.  The writers that have
\* the file open keep a file without a name.
GetUnlink(p) ==
    /\ cm_procs[p].pc = "unlink"
    /\ IF cache[ConcKey].kind = "none"
       THEN /\ cm_procs' = Finish(cm_procs, p, <<>>, "FileNotFoundError")
            /\ cache' = cache
       ELSE /\ cm_procs' = Finish([q \in Procs |-> [cm_procs[q] EXCEPT !.linked = FALSE]],
                                  p, <<>>, "")
            /\ cache' = [cache EXCEPT ![ConcKey] = NoEntry]
    /\ UNCHANGED <<engine_vars, fs, now, request_vars, merge_vars, cm_out, pre_vars, ai_vars>>

\* set_ocr_cache: open(cache_file, 'w') creates the file or empties it.
SetOpen(p, value) ==
    /\ cm_procs[p].pc = "idle"
    /\ cm_procs' = [cm_procs EXCEPT ![p].op = "set", ![p].pc = "opened",
                                    ![p].value = value, ![p].linked = TRUE]
    /\ cache' = [cache EXCEPT ![ConcKey] = [NoEntry EXCEPT !.kind = "invalid_json"]]
    /\ UNCHANGED <<engine_vars, fs, now, request_vars, merge_vars, cm_out, pre_vars, ai_vars>>

\* set_ocr_cache: the end of the with block writes the JSON text from the
\* start of the file: over a longer text another writer has written since,
\* it leaves that text's tail behind it.
SetClose(p) ==
    /\ cm_procs[p].pc = "opened"
    /\ LET mine == set_ocr_cache(cache, ConcKey, PathScan, cm_procs[p].value, now)
       IN cache' = IF ~cm_procs[p].linked THEN cache
                   ELSE IF Len(cache[ConcKey].text) > Len(mine[ConcKey].text)
                   THEN [cache EXCEPT ![ConcKey] = [NoEntry EXCEPT !.kind = "invalid_json"]]
                   ELSE mine
    /\ cm_procs' = Finish(cm_procs, p, <<>>, "")
    /\ UNCHANGED <<engine_vars, fs, now, request_vars, merge_vars, cm_out, pre_vars, ai_vars>>

NextConc ==
    \/ \E p \in Procs : GetExists(p)
    \/ \E p \in Procs : GetLoad(p)
    \/ \E p \in Procs : GetUnlink(p)
    \/ \E p \in Procs, value \in ConcValues : SetOpen(p, value)
    \/ \E p \in Procs : SetClose(p)

SpecConc == InitConc /\ [][NextConc]_vars

(***************************************************************************)
(* The specification of preprocess_image called on its own.  A frame is    *)
(* the list of the operations applied to the image so far; the OpenCV      *)
(* calls named in pre_in.faults raise, and pre_in.skew says what           *)
(* _correct_skew meets: no line, an angle below 0.5, an angle to rotate    *)
(* by, or an OpenCV call that raises.                                      *)
(***************************************************************************)
PreFaults == {"cvtColor", "GaussianBlur", "CLAHE"}

SkewCases == {"no_lines", "small_angle", "rotate", "raises"}

\* _correct_skew: the rotated image, or the image it was given
_correct_skew(image, skew) == IF skew = "rotate" THEN Append(image, "warpAffine") ELSE image

\* The first OpenCV call of preprocess_image that raises, "" when none does.
preprocess_raises(channels, faults) ==
    IF channels = 3 /\ "cvtColor" \in faults THEN "cvtColor"
    ELSE IF "GaussianBlur" \in faults THEN "GaussianBlur"
    ELSE IF "CLAHE" \in faults THEN "CLAHE"
    ELSE ""

\* preprocess_image, when no call raises
preprocess_image(channels, skew) ==
    LET gray == IF channels = 3 THEN <<"cvtColor">> ELSE <<>>
        denoised == Append(gray, "GaussianBlur")
        enhanced == Append(denoised, "CLAHE")
    IN _correct_skew(enhanced, skew)

InitPre ==
    /\ InitEngine
    /\ NoMergeCall
    /\ NoCacheCall
    /\ pre_in \in [channels : {1, 3}, faults : SUBSET PreFaults, skew : SkewCases]
    /\ pre_out = [ran |-> FALSE, raised |-> FALSE, frame |-> <<>>]
    /\ NoAiCall

PreprocessCall ==
    /\ ~pre_out.ran
    /\ pre_out' = IF preprocess_raises(pre_in.channels, pre_in.faults) # ""
                  THEN [ran |-> TRUE, raised |-> TRUE, frame |-> <<>>]
                  ELSE [ran |-> TRUE, raised |-> FALSE,
                        frame |-> preprocess_image(pre_in.channels, pre_in.skew)]
    /\ UNCHANGED <<engine_vars, store_vars, request_vars, merge_vars, cm_vars, pre_in, ai_vars>>

NextPre == PreprocessCall

SpecPre == InitPre /\ [][NextPre]_vars

(***************************************************************************)
(* The specification of a provider's chat call: the request function       *)
(* inside AIModelProvider._retry_with_exponential_backoff.  ai.events is   *)
(* what every call of the request function met, ai.excs the exception it   *)
(* left with ("" when it returned), ai.sleeps the arguments of time.sleep. *)
(***************************************************************************)
MaxAiRetries == 4

Contents200 == {"c1", "c2"}

\* What one call of the request function can meet: an HTTP answer
\* (CustomProvider._make_request) or an exception of the client library
\* (OpenAIProvider._make_request).
AiEvents ==
    {[name |-> "http_200", body |-> c] : c \in Contents200}
        \cup {[name |-> n, body |-> ""] :
                n \in {"http_200_no_choices", "http_401", "http_404", "http_429", "http_500",
                       "APIConnectionError", "APITimeoutError", "Timeout", "ConnectionError",
                       "RateLimitError", "APIError", "ValueError"}}

\* The exception the request function leaves with, "" when it returns.
\* RateLimitError("...") is itself a TypeError where the installed client
\* library wants the response and the body as arguments (strict_sdk).
_make_request(event, strict_sdk) ==
    IF event.name = "http_200" THEN ""
    ELSE IF event.name = "http_200_no_choices" THEN "AIAnalysisException"
    ELSE IF event.name = "http_401" THEN "AIAnalysisException"
    ELSE IF event.name = "http_429" THEN (IF strict_sdk THEN "TypeError" ELSE "RateLimitError")
    ELSE IF event.name = "http_500" THEN "ConnectionError"
    ELSE IF event.name = "http_404" THEN "AIAnalysisException"
    ELSE event.name

\* except (APIConnectionError, APITimeoutError, requests.exceptions.Timeout,
\*         requests.exceptions.ConnectionError)
network_errors == {"APIConnectionError", "APITimeoutError", "Timeout", "ConnectionError"}

\* an API error retried like a network error
on_exception_retrying_api_errors(exception) ==
    IF exception = "" THEN "return"
    ELSE IF exception = "AIAnalysisException" THEN "reraise"
    ELSE IF exception \in network_errors \cup {"RateLimitError", "APIError"} THEN "retry"
    ELSE "unknown"

\* The except clause of the wrapper that takes the exception.
on_exception(exception) ==
    IF exception = "" THEN "return"
    ELSE IF exception = "AIAnalysisException" THEN "reraise"
    ELSE IF exception \in network_errors THEN "retry"
    ELSE IF exception = "RateLimitError" THEN "retry"
    ELSE IF exception = "APIError" THEN "api_failed"
    ELSE "unknown"

\* every failure waited for as a rate limit is
backoff_wait_as_rate_limit(exception, n) == Pow2(n + 1)

\* wait_time = 2 ** attempt, and 2 ** (attempt + 1) after a RateLimitError
backoff_wait(exception, n) == IF exception = "RateLimitError" THEN Pow2(n + 1) ELSE Pow2(n)

\* if attempt < self.max_retries - 1
backoff_again(n, retries) == n < retries - 1

\* provider.chat(...): return self._retry_with_exponential_backoff(_make_request)
Chat(retries) ==
    /\ ai.pc = "idle"
    /\ ai' = [ai EXCEPT !.pc = "calling", !.max_retries = retries]
    /\ UNCHANGED <<engine_vars, store_vars, request_vars, merge_vars, cm_vars, pre_vars, az>>

\* One iteration of "for attempt in range(self.max_retries)": the call of
\* func and the except clause it ends in.
AiCall(event, strict_sdk) ==
    /\ ai.pc = "calling"
    /\ ai.attempt < ai.max_retries
    /\ LET exception == _make_request(event, strict_sdk)
           branch == on_exception(exception)
           called == [ai EXCEPT !.events = Append(@, event), !.excs = Append(@, exception)]
       IN ai' = IF branch = "return"
                THEN [called EXCEPT !.pc = "returned", !.content = event.body]
                ELSE IF branch = "reraise"
                THEN [called EXCEPT !.pc = "raised", !.raised = "AIAnalysisException",
                                    !.message = "inner"]
                ELSE IF branch = "retry"
                THEN IF backoff_again(ai.attempt, ai.max_retries)
                     THEN [called EXCEPT !.pc = "sleeping",
                                         !.wait = backoff_wait(exception, ai.attempt)]
                     ELSE [called EXCEPT !.attempt = @ + 1]
                ELSE [called EXCEPT !.pc = "raised", !.raised = "AIAnalysisException",
                                    !.message = branch]
    /\ UNCHANGED <<engine_vars, store_vars, request_vars, merge_vars, cm_vars, pre_vars, az>>

\* time.sleep(wait_time); continue
AiSleep ==
    /\ ai.pc = "sleeping"
    /\ ai' = [ai EXCEPT !.pc = "calling", !.sleeps = Append(@, ai.wait), !.attempt = @ + 1]
    /\ UNCHANGED <<engine_vars, store_vars, request_vars, merge_vars, cm_vars, pre_vars, az>>

\* The loop is over without a return: raise AIAnalysisException(...)
AiLoopExit ==
    /\ ai.pc = "calling"
    /\ ai.attempt >= ai.max_retries
    /\ ai' = [ai EXCEPT !.pc = "raised", !.raised = "AIAnalysisException",
                        !.message = "exhausted"]
    /\ UNCHANGED <<engine_vars, store_vars, request_vars, merge_vars, cm_vars, pre_vars, az>>

NextAI ==
    \/ \E retries \in 0..MaxAiRetries : Chat(retries)
    \/ \E event \in AiEvents :
          \E strict_sdk \in (IF event.name = "http_429" THEN BOOLEAN ELSE {FALSE}) :
             AiCall(event, strict_sdk)
    \/ AiSleep
    \/ AiLoopExit

SpecAI == Init /\ [][NextAI]_vars

(***************************************************************************)
(* The specification of AITestPointAnalyzer.extract_test_points called     *)
(* several times on one analyzer.  A response of the model is named by     *)
(* what the analyzer makes of it: "r1" and "r2" parse to results that pass *)
(* the validation, "lax" to one that passes it unless strict_mode is set,  *)
(* "weak" to one that fails it, "broken" has braces and does not parse,    *)
(* and "prose" has no braces.  az.cache is the AI cache directory, from a  *)
(* requirement text to the result stored for it, "" when there is none.    *)
(***************************************************************************)
MaxAnalyzerCalls == 2

Requirements == {"", "req1", "req2"}

AzResponses == {"r1", "r2", "lax", "weak", "broken", "prose"}

\* max_retries = 3, the local of extract_test_points
AzChatRetries == 3

\* if '{' in response and '}' in response
has_json_structure(response) == response # "prose"

\* _parse_response raises AIAnalysisException
_parse_response_raises(response) == response = "broken"

\* _validate_test_points(result, strict_mode)
_validate_test_points(result, strict_mode) ==
    result \in {"r1", "r2"} \/ (result = "lax" /\ ~strict_mode)

\* The call has ended: one more line of az.history.
AzEnd(call, ok) ==
    [call EXCEPT !.pc = IF ok THEN "done" ELSE "failed",
                 !.history = Append(@, [text |-> call.text, chats |-> call.chats,
                                        result |-> IF ok THEN call.result ELSE "",
                                        ok |-> ok])]

\* extract_test_points(requirement_text), up to the first call of the model:
\* the test for an empty text and _build_prompt.  The lookup in the AI
\* cache is commented out in the source.
ExtractTestPoints(requirement_text, is_testing) ==
    /\ az.pc \in {"idle", "done", "failed"}
    /\ Len(az.history) < MaxAnalyzerCalls
    /\ LET call == [az EXCEPT !.text = requirement_text, !.attempt = 0, !.chats = 0,
                              !.result = "", !.testing = is_testing]
       IN az' = IF requirement_text = ""
                THEN AzEnd(call, FALSE)
                ELSE [call EXCEPT !.pc = "chatting"]
    /\ UNCHANGED <<engine_vars, store_vars, request_vars, merge_vars, cm_vars, pre_vars, ai>>

\* One iteration of "for attempt in range(max_retries)": the chat call and
\* the test for a JSON structure; after the loop _parse_response and
\* _validate_test_points.
AzChat(raises, response) ==
    /\ az.pc = "chatting"
    /\ LET called == [az EXCEPT !.chats = @ + 1]
           parsed == [called EXCEPT !.result = response]
       IN az' = IF raises \/ ~has_json_structure(response)
                THEN IF az.attempt = AzChatRetries - 1
                     THEN AzEnd(called, FALSE)
                     ELSE [called EXCEPT !.attempt = @ + 1]
                ELSE IF _parse_response_raises(response)
                THEN AzEnd(called, FALSE)
                ELSE IF _validate_test_points(response, ~az.testing)
                THEN [parsed EXCEPT !.pc = "storing"]
                ELSE IF az.testing
                THEN AzEnd(parsed, FALSE)
                ELSE [parsed EXCEPT !.pc = "enhancing"]
    /\ UNCHANGED <<engine_vars, store_vars, request_vars, merge_vars, cm_vars, pre_vars, ai>>

\* The second chat call, with the enhanced prompt, and what follows it.
AzEnhanced(raises, response) ==
    /\ az.pc = "enhancing"
    /\ LET called == [az EXCEPT !.chats = @ + 1]
       IN az' = IF raises \/ _parse_response_raises(response) \/ response = "prose"
                   \/ ~_validate_test_points(response, TRUE)
                THEN AzEnd(called, FALSE)
                ELSE [called EXCEPT !.result = response, !.pc = "storing"]
    /\ UNCHANGED <<engine_vars, store_vars, request_vars, merge_vars, cm_vars, pre_vars, ai>>

\* self.cache_manager.set_ai_cache(requirement_text, model_name, result);
\* return result
AzStore ==
    /\ az.pc = "storing"
    /\ az' = AzEnd([az EXCEPT !.cache = (az.cache \ {e \in az.cache : e.text = az.text})
                                           \cup {[text |-> az.text, result |-> az.result]}],
                   TRUE)
    /\ UNCHANGED <<engine_vars, store_vars, request_vars, merge_vars, cm_vars, pre_vars, ai>>

NextAnalyzer ==
    \/ \E requirement_text \in Requirements, is_testing \in BOOLEAN :
          ExtractTestPoints(requirement_text, is_testing)
    \/ \E raises \in BOOLEAN :
          \E response \in (IF raises THEN {"prose"} ELSE AzResponses) : AzChat(raises, response)
    \/ \E raises \in BOOLEAN :
          \E response \in (IF raises THEN {"prose"} ELSE AzResponses) :
             AzEnhanced(raises, response)
    \/ AzStore

SpecAnalyzer == Init /\ [][NextAnalyzer]_vars

(***************************************************************************)
(* The specification of a request whose file another party writes while    *)
(* the request is running: between the lookup, the attempts and the write  *)
(* of the cache.                                                           *)
(***************************************************************************)
\* Another party replaces the bytes of the file of the running request.
Overwrite(path, bytes) ==
    /\ ~Idle
    /\ path = file_path
    /\ fs[path] # bytes
    /\ fs' = [fs EXCEPT ![path] = bytes]
    /\ UNCHANGED <<engine_vars, cache, now, request_vars, direct_vars>>

NextRace ==
    \/ /\ nreq < MaxCacheRequests
       /\ \E retries \in 1..2 : ExtractText(PathScan, retries)
    \/ CheckCache
    \/ \E preprocessed \in OutcomesWhen(pc = "attempting" /\ imread(fs[file_path])) :
          \E p_answer \in PaddleAnswersWhen(preprocessed /\ paddle_ocr),
             t_answer \in TesseractAnswersWhen(preprocessed /\ tesseract_available) :
             Attempt(preprocessed, p_answer, t_answer)
    \/ Sleep
    \/ LoopExit
    \/ \E gray_ok \in OutcomesWhen(pc = "degrading" /\ imread(fs[file_path])) :
          \E p_answer \in PaddleAnswersWhen(gray_ok /\ paddle_ocr) :
             \E t_answer \in TesseractAnswersWhen(
                     gray_ok /\ fallback_calls_tesseract(
                         paddle_ocr, _paddle_ocr(paddle_ocr, p_answer),
                         tesseract_available)) :
                Fallback(gray_ok, p_answer, t_answer)
    \/ StoreResult(TRUE)
    \/ \E bytes \in {"bytesA", "bytesC"} : Overwrite(PathScan, bytes)

SpecRace == InitCache /\ [][NextRace]_vars

(***************************************************************************)
(* The specification of one image request that runs to its end: every      *)
(* library call returns or raises, so a request that can take a step takes *)
(* one.                                                                    *)
(***************************************************************************)
ImagePaths == {PathScan, PathBroken}

\* A step of the running request.
RequestStep ==
    \/ CheckCache
    \/ \E preprocessed \in OutcomesWhen(pc = "attempting" /\ imread(fs[file_path])) :
          \E p_answer \in PaddleAnswersWhen(preprocessed /\ paddle_ocr),
             t_answer \in TesseractAnswersWhen(preprocessed /\ tesseract_available) :
             Attempt(preprocessed, p_answer, t_answer)
    \/ Sleep
    \/ LoopExit
    \/ \E gray_ok \in OutcomesWhen(pc = "degrading" /\ imread(fs[file_path])) :
          \E p_answer \in PaddleAnswersWhen(gray_ok /\ paddle_ocr) :
             \E t_answer \in TesseractAnswersWhen(
                     gray_ok /\ fallback_calls_tesseract(
                         paddle_ocr, _paddle_ocr(paddle_ocr, p_answer),
                         tesseract_available)) :
                Fallback(gray_ok, p_answer, t_answer)
    \/ StoreResult(TRUE)

NextLive ==
    \/ \E up \in BOOLEAN, ut \in BOOLEAN :
          \E paddle_ok \in OutcomesWhen(up), tesseract_ok \in OutcomesWhen(ut) :
             Construct(up, ut, paddle_ok, tesseract_ok)
    \/ /\ nreq = 0
       /\ \E path \in ImagePaths, retries \in 1..MaxRetriesArg : ExtractText(path, retries)
    \/ RequestStep

SpecLive == Init /\ [][NextLive]_vars /\ WF_vars(RequestStep)

(***************************************************************************)
(* The specification of lookups of one cache file that run at the same     *)
(* time as each other and as cleanup_expired_cache.  The file is an entry  *)
(* written on day 0 or a damaged file of that day; its modification time   *)
(* is the day in its timestamp field.                                      *)
(***************************************************************************)
InitSweep ==
    /\ constructed = "none"
    /\ use_paddle = FALSE
    /\ use_tesseract = FALSE
    /\ paddle_ocr = FALSE
    /\ tesseract_available = FALSE
    /\ fs = InitialFiles
    /\ \E entry \in {OldEntry} \cup InitialEntries :
          cache = [k \in CacheKeys |-> IF k = ConcKey THEN entry ELSE NoEntry]
    /\ now \in {0, OcrTtlDays + 1}
    /\ NoRequest
    /\ NoMergeCall
    /\ cm_out = [op |-> "none", key |-> <<>>, value |-> <<>>, raised |-> "", calls |-> 0,
                 day |-> 0,
                 sets |-> [k \in CacheKeys |-> [done |-> FALSE, value |-> <<>>, day |-> 0]]]
    /\ cm_procs = [p \in Procs |-> NoCall]
    /\ NoPreprocessCall
    /\ NoAiCall

\* if file_mtime < expiry_time, with expiry_time = datetime.now() - timedelta(days=7)
swept(mtime, today) == mtime < today - OcrTtlDays

\* _cleanup_directory(self.ocr_cache_dir, days=7) on the one file: stat and
\* unlink inside a try that swallows OSError.
Sweep ==
    /\ cache[ConcKey].kind # "none"
    /\ swept(cache[ConcKey].timestamp, now)
    /\ cache' = [cache EXCEPT ![ConcKey] = NoEntry]
    /\ cm_procs' = [q \in Procs |-> [cm_procs[q] EXCEPT !.linked = FALSE]]
    /\ UNCHANGED <<engine_vars, fs, now, request_vars, merge_vars, cm_out, pre_vars, ai_vars>>

NextSweep ==
    \/ \E p \in Procs : GetExists(p)
    \/ \E p \in Procs : GetLoad(p)
    \/ \E p \in Procs : GetUnlink(p)
    \/ Sweep

SpecSweep == InitSweep /\ [][NextSweep]_vars

(***************************************************************************)
(* Properties.                                                             *)
(***************************************************************************)
\* The request is in, or has ended in, _extract_text_from_image.
InImageLoop == pc \in {"attempting", "sleeping", "degrading"}

\* The state the last iteration of the retry loop left behind is still there.
AfterAttempt == attempts_made >= 1 /\ fallbacks = 0

\* The state _fallback_single_engine left behind is still there.
AfterFallback == fallbacks = 1 /\ pc \in {"store", "done", "failed"}

RECURSIVE JoinedLength(_)
JoinedLength(lines) ==
    IF lines = <<>> THEN 0
    ELSE IF Len(lines) = 1 THEN Len(Head(lines))
    ELSE Len(Head(lines)) + 1 + JoinedLength(Tail(lines))

\* C1: with max_retries >= 1 (and an engine that has a backend), a failed
\* last attempt (attempt = max_retries - 1) always moves the request to the
\* degraded pass, whatever made it fail, and the image loop reaches Failed
\* only out of the degraded pass.
C1_LastAttemptDegrades ==
    [][((paddle_ocr \/ tesseract_available) /\ max_retries >= 1) =>
          /\ (/\ pc = "attempting"
              /\ attempt = max_retries - 1
              /\ attempts_made' = attempts_made + 1
              /\ pc' # "store")
             => pc' = "degrading"
          /\ (InImageLoop /\ pc' = "failed") => pc = "degrading"]_vars

\* C2: the sleeps of an image request are 2^0, 2^1, ... in that order, one
\* after each failed attempt but the last: max_retries - 1 of them when the
\* degraded pass starts, and none between the last attempt and that pass.
C2_BackoffSchedule ==
    /\ \A i \in 1..Len(sleeps) : sleeps[i] = 2 ^ (i - 1)
    /\ (pc = "attempting" /\ attempt < max_retries) => Len(sleeps) = attempt
    /\ pc = "sleeping" => (Len(sleeps) = attempt /\ attempt < max_retries - 1)
    /\ (pc = "degrading" \/ fallbacks = 1) =>
          /\ Len(sleeps) = max_retries - 1
          /\ attempts_made = max_retries

C2_Witness ==
    /\ pc = "degrading"
    /\ max_retries = 4
    /\ last_exception = "empty_result"
    /\ sleeps = <<1, 2, 4>>

\* Some line of the list is not the empty string.
HasText(lines) == \E i \in 1..Len(lines) : lines[i] # <<>>

\* C3: the degraded pass works on a frame that was only converted to gray,
\* calls PaddleOCR before Tesseract, and returns the joined lines of the
\* first engine whose lines hold text: Tesseract is called exactly when
\* PaddleOCR is off or gave no text, a pass in which PaddleOCR gave nothing
\* and Tesseract gave "ok" returns "ok", and the pass fails only when no
\* enabled engine gave text.
C3_FallbackFirstWithText ==
    AfterFallback =>
        /\ \A i \in 1..Len(steps) : steps[i] \in {"imread", "gray", "paddle", "tesseract"}
        /\ \A i, j \in 1..Len(steps) :
              (steps[i] = "paddle" /\ steps[j] = "tesseract") => i < j
        /\ tesseract_call # "not_called" => ~HasText(paddle_result)
        /\ pc # "failed" =>
              \/ HasText(paddle_result) /\ text = Join(<<NL>>, paddle_result)
              \/ /\ ~HasText(paddle_result)
                 /\ HasText(tesseract_result)
                 /\ text = Join(<<NL>>, tesseract_result)
        /\ pc = "failed" => (~HasText(paddle_result) /\ ~HasText(tesseract_result))

\* C4: for two non-empty line lists with joined lengths L1 (PaddleOCR) and
\* L2 (Tesseract), fusion returns the Tesseract text when L2 > 1.5 * L1 and
\* the PaddleOCR text otherwise (so also at L2 = 1.5 * L1).
C4_FusionThreshold ==
    (m_out.ran /\ m_paddle # <<>> /\ m_tesseract # <<>>) =>
        LET L1 == JoinedLength(m_paddle)
            L2 == JoinedLength(m_tesseract)
        IN IF 2 * L2 > 3 * L1
           THEN m_out.value = Join(<<NL>>, m_tesseract)
           ELSE m_out.value = Join(<<NL>>, m_paddle)

C4_Witness ==
    /\ m_out.ran
    /\ m_paddle # <<>>
    /\ m_tesseract # <<>>
    /\ JoinedLength(m_paddle) = 2
    /\ JoinedLength(m_tesseract) = 3
    /\ m_out.value = Join(<<NL>>, m_paddle)
    /\ m_out.value # Join(<<NL>>, m_tesseract)

\* C5: fusion always returns: the joined lines of the only engine that has
\* lines, whichever it is, and the empty text when neither has any.
C5_FusionTotal ==
    /\ ~m_out.ran => ENABLED MergeCall
    /\ m_out.ran =>
          /\ (m_paddle # <<>> /\ m_tesseract = <<>>) => m_out.value = Join(<<NL>>, m_paddle)
          /\ (m_paddle = <<>> /\ m_tesseract # <<>>) =>
                m_out.value = Join(<<NL>>, m_tesseract)
          /\ (m_paddle = <<>> /\ m_tesseract = <<>>) => m_out.value = <<>>
          /\ Len(m_out.value) \in {JoinedLength(m_paddle), JoinedLength(m_tesseract)}

C5_Witness ==
    /\ m_out.ran
    /\ m_paddle = <<>>
    /\ m_tesseract = << <<"a">>, <<"a", "b">> >>
    /\ m_out.value = <<"a", NL, "a", "b">>

\* C6: a request for a path that does not exist fails at once with the
\* file-not-found error: no sleep, no attempt, no degraded pass, no cache
\* read and no cache write, whatever max_retries is.
C6_MissingFileFailsAtOnce ==
    (nreq >= 1 /\ fs[file_path] = NoFile) =>
        /\ pc = "failed"
        /\ error = "file_not_found"
        /\ sleeps = <<>>
        /\ attempts_made = 0
        /\ fallbacks = 0
        /\ cache_reads = 0
        /\ cache_writes = 0
        /\ steps = <<>>

C6_Witness ==
    /\ pc = "failed"
    /\ error = "file_not_found"
    /\ file_path = PathMissing
    /\ max_retries = 4

\* C7 as stated: a path whose extension is not supported is rejected with
\* the unsupported-format error whether or not the file exists.
C7_UnsupportedWhateverExists ==
    (nreq >= 1 /\ Lower(file_path.suffix) \notin supported_formats) =>
        /\ pc = "failed"
        /\ error = "unsupported_format"
        /\ cache_reads = 0
        /\ cache_writes = 0
        /\ attempts_made = 0
        /\ sleeps = <<>>

\* C7 amended: the existence check comes first.  An existing file whose
\* extension, lower-cased, is not supported is rejected with the
\* unsupported-format error before any cache access, attempt or sleep; a
\* path that does not exist is rejected as file-not-found whatever its
\* extension; a supported extension in any letter case is never rejected.
C7_UnsupportedAfterExistence ==
    nreq >= 1 =>
        /\ (fs[file_path] # NoFile /\ Lower(file_path.suffix) \notin supported_formats) =>
              /\ pc = "failed"
              /\ error = "unsupported_format"
              /\ cache_reads = 0
              /\ cache_writes = 0
              /\ attempts_made = 0
              /\ fallbacks = 0
              /\ sleeps = <<>>
        /\ (fs[file_path] = NoFile /\ Lower(file_path.suffix) \notin supported_formats) =>
              error = "file_not_found"
        /\ Lower(file_path.suffix) \in supported_formats => error # "unsupported_format"

C7_Witness ==
    /\ pc = "failed"
    /\ error = "unsupported_format"
    /\ file_path = PathNotes
    /\ cache_reads = 0

\* C8: a constructed engine has at least one usable backend.
C8_ConstructedHasBackend ==
    constructed = "ok" => (paddle_ocr \/ tesseract_available)

\* C9: in an attempt, an engine that raised counts as having no lines; the
\* other enabled engine is still called in that attempt, and when it returns
\* lines that hold text the attempt succeeds with them.
C9_BackendFailureIsolated ==
    AfterAttempt =>
        /\ paddle_call = "raised" =>
              /\ paddle_result = <<>>
              /\ tesseract_available => tesseract_call # "not_called"
              /\ HasText(tesseract_result) =>
                    (pc \in {"store", "done"} /\ text = Join(<<NL>>, tesseract_result))
        /\ tesseract_call = "raised" =>
              /\ tesseract_result = <<>>
              /\ paddle_ocr => paddle_call # "not_called"
              /\ HasText(paddle_result) =>
                    (pc \in {"store", "done"} /\ text = Join(<<NL>>, paddle_result))

C9_Witness ==
    /\ AfterAttempt
    /\ attempts_made = 1
    /\ paddle_call = "raised"
    /\ tesseract_call = "returned"
    /\ pc = "done"
    /\ text = <<"a", NL, "b">>

\* C10: a text returned by extract_text is never empty.
C10_ReturnedTextNonEmpty ==
    pc = "done" => text # <<>>

\* The cache file of the bytes the requested file holds now.
EntryOfFile == cache[<<"md5", fs[file_path]>>]

\* The entry is one set_ocr_cache wrote, and it is at most 7 days old.
Unexpired(entry) == entry.kind = "ok" /\ now - entry.timestamp <= OcrTtlDays

\* C11: a request that finds an unexpired entry for the bytes of its file
\* returns the text that was stored (the text whose JSON string the entry
\* holds) and nothing else happens in it: no imread, no preprocessing, no
\* engine call, no sleep, no degraded pass, no cache write; the cache
\* directory is left as it was.
C11_CacheHitSkipsPipeline ==
    [][(pc = "lookup" /\ Unexpired(EntryOfFile)) =>
          /\ pc' = "done"
          /\ error' = ""
          /\ text' # <<>>
          /\ json_escape(text') = EntryOfFile.text
          /\ steps' = <<>>
          /\ attempts_made' = 0
          /\ fallbacks' = 0
          /\ sleeps' = <<>>
          /\ paddle_call' = "not_called"
          /\ tesseract_call' = "not_called"
          /\ cache_writes' = 0
          /\ cache' = cache]_vars

\* The second request finds the entry of the first, which is exactly 7 days old.
C11_Witness ==
    /\ nreq = 2
    /\ pc = "done"
    /\ cache_reads = 1
    /\ attempts_made = 0
    /\ now = OcrTtlDays
    /\ EntryOfFile.kind = "ok"
    /\ EntryOfFile.timestamp = 0
    /\ text = <<"o", "k">>

\* C15: the cache file a request reads and writes is the one named after the
\* bytes its file holds, whatever the path: a lookup is a hit exactly when
\* that file holds an unexpired entry, so a request for a copy of a file
\* whose text is cached is a hit and a request for a file with other bytes
\* is not; a write changes that cache file and no other.
C15_KeyIsContentOnly ==
    [][/\ pc = "lookup" => (pc' = "done" <=> Unexpired(EntryOfFile))
       /\ (pc = "store" /\ pc' = "done" /\ text # <<>>) =>
             /\ cache'[<<"md5", fs[file_path]>>].kind = "ok"
             /\ json_unescape(cache'[<<"md5", fs[file_path]>>].text) = text
             /\ \A k \in CacheKeys : k # <<"md5", fs[file_path]>> => cache'[k] = cache[k]]_vars

\* A request for copy.JPG is answered from the entry a request for scan.Png wrote.
C15_Witness ==
    /\ nreq = 2
    /\ pc = "done"
    /\ file_path = PathCopy
    /\ fs[PathCopy] = fs[PathScan]
    /\ cache_reads = 1
    /\ attempts_made = 0
    /\ cache_writes = 0
    /\ EntryOfFile.file_path = PathScan.stem
    /\ json_unescape(EntryOfFile.text) = text

\* A direct get_ocr_cache call has just returned or raised.
GetDone == cm_out.op = "get"

\* C12: get_ocr_cache after set_ocr_cache(v) on the same cache file, with no
\* other write to it in between, returns v while the entry is at most 7 days
\* old; once it is older, get_ocr_cache returns nothing and the cache file is
\* gone, so that every later get_ocr_cache returns nothing too.
C12_SetGetRoundTrip ==
    (GetDone /\ cm_out.sets[cm_out.key].done) =>
        LET last == cm_out.sets[cm_out.key]
        IN /\ cm_out.raised = ""
           /\ IF cm_out.day - last.day <= OcrTtlDays
              THEN /\ cm_out.value = last.value
                   /\ cache[cm_out.key].kind = "ok"
              ELSE /\ cm_out.value = <<>>
                   /\ cache[cm_out.key] = NoEntry

\* set at day 0, a first get on day 8 (a miss that removes the file), and
\* this second get: a miss again.
C12_Witness ==
    /\ GetDone
    /\ cm_out.calls = 3
    /\ cm_out.sets[cm_out.key] = [done |-> TRUE, value |-> <<"a", NL, "\"">>, day |-> 0]
    /\ cm_out.day = OcrTtlDays + 1
    /\ cm_out.value = <<>>
    /\ cache[cm_out.key] = NoEntry

\* C13: get_ocr_cache on a cache file that is damaged (no JSON, a JSON value
\* that is no object, a missing field, a field of the wrong type, a
\* timestamp that is no date) returns nothing, deletes the file and never
\* raises.
C13_CorruptIsMiss ==
    [][(cm_out'.calls = cm_out.calls + 1
            /\ cm_out'.op = "get"
            /\ cache[cm_out'.key].kind \in DamagedKinds) =>
          /\ cm_out'.raised = ""
          /\ cm_out'.value = <<>>
          /\ cache'[cm_out'.key] = NoEntry]_vars

\* Every concurrent call has ended.
AllEnded == \A p \in Procs : cm_procs[p].pc = "done"

Writers == {p \in Procs : cm_procs[p].op = "set"}

\* The writer that ended last.
LastWriter == CHOOSE w \in Writers : \A v \in Writers : cm_procs[v].rank <= cm_procs[w].rank

Readers == {p \in Procs : cm_procs[p].op = "get"}

\* C14: when a get_ocr_cache and a set_ocr_cache run at the same time on one
\* cache file, the get_ocr_cache does not raise and returns nothing, the
\* text of the entry that was there before, or the text being set; and when
\* both have ended the file holds the entry of the set_ocr_cache (the reader
\* has not deleted it).
C14_AtomicPerEntry ==
    (Cardinality(Writers) = 1 /\ Readers # {}) =>
        /\ \A p \in Readers :
              cm_procs[p].pc = "done" =>
                  /\ cm_procs[p].raised = ""
                  /\ cm_procs[p].ret \in
                        {<<>>, json_unescape(OldEntry.text), cm_procs[LastWriter].value}
        /\ AllEnded =>
              /\ cache[ConcKey].kind = "ok"
              /\ json_unescape(cache[ConcKey].text) = cm_procs[LastWriter].value

\* The request is for a PDF that convert_from_path has turned into pages.
InPdf == n_pages > 0

\* The pages processed so far that gave no text.
EmptyPages == {i \in 1..Len(page_texts) : page_texts[i] = <<>>}

\* C16: a page of a PDF goes through the pipeline of an image request: a
\* page whose fusion is empty has been retried after the sleeps of the
\* backoff (max_retries - 1 of them) and then been given the degraded pass.
C16_PagesUseImagePipeline ==
    (InPdf /\ EmptyPages # {} /\ max_retries >= 1) =>
        /\ Len(sleeps) >= max_retries - 1
        /\ fallbacks >= 1

\* The blocks of the pages that gave text, in page order, page i being the
\* first of texts.
RECURSIVE BlocksOf(_, _)
BlocksOf(texts, i) ==
    IF texts = <<>> THEN <<>>
    ELSE IF Head(texts) # <<>>
         THEN <<page_block(i, Head(texts))>> \o BlocksOf(Tail(texts), i + 1)
         ELSE BlocksOf(Tail(texts), i + 1)

\* C17: the result of a PDF request is the texts of exactly the pages that
\* gave text, in page order, each after the marker with its page number; and
\* the request fails if and only if every page gave no text.
C17_PdfResultIsNonEmptyPages ==
    InPdf =>
        /\ pc \in {"store", "done"} =>
              /\ Len(page_texts) = n_pages
              /\ text = Join(<<NL, NL>>, BlocksOf(page_texts, 1))
              /\ EmptyPages # 1..n_pages
        /\ pc = "failed" => EmptyPages = 1..Len(page_texts)
        /\ (Len(page_texts) = n_pages /\ EmptyPages = 1..n_pages) => pc \in {"pdf_page", "failed"}

\* sub occurs in s
Occurs(sub, s) ==
    \E i \in 1..(Len(s) - Len(sub) + 1) : SubSeq(s, i, i + Len(sub) - 1) = sub

\* C18: the result of a PDF request of which some pages gave no text names
\* every one of these pages (their numbers are in what the caller receives).
C18_FailedPagesReported ==
    (InPdf /\ pc \in {"store", "done"}) =>
        \A i \in EmptyPages : Occurs(ToStr(i), text)

\* The errors extract_text raises as OCRException.
TypedErrors ==
    {"file_not_found", "unsupported_format", "read_failed", "empty_result", "ocr_error",
     "ocr_failed", "all_engines_failed", "fallback_failed", "pdf2image_missing",
     "pdf_failed", "pdf_empty", "pdf_all_pages_empty"}

\* C19: a request that fails, fails with one of the typed extraction errors,
\* wherever the failure arose: in the validation, the image read, the
\* preprocessing, an engine, the cache read or the cache write.
C19_OnlyTypedErrors ==
    pc = "failed" => error \in TypedErrors

\* C20: preprocess_image never raises: whichever of its steps raises, it
\* returns a frame, and when the skew correction raises it returns the frame
\* the skew correction was given.
C20_PreprocessNeverFails ==
    pre_out.ran =>
        /\ ~pre_out.raised
        /\ pre_out.frame # <<>>
        /\ pre_in.skew = "raises" =>
              pre_out.frame[Len(pre_out.frame)] # "warpAffine"

\* A provider call all of whose failures so far were network failures.
NetworkFailuresOnly ==
    /\ ai.pc # "idle"
    /\ \A i \in 1..Len(ai.excs) :
          \/ ai.excs[i] \in {"APIConnectionError", "APITimeoutError", "Timeout",
                             "ConnectionError"}
          \/ i = Len(ai.excs) /\ ai.excs[i] = ""

\* C21: the wrapper retries connection errors and timeouts: it makes at most
\* max_retries calls, the sleep after the k-th failed call (from 0) is 2^k,
\* a call is only made once every failure before it was slept on, k failures
\* and a success return the value of the successful call after k + 1 calls
\* and k sleeps, and max_retries failures raise AIAnalysisException with no
\* sleep after the last one.
C21_NetworkFailuresRetried ==
    NetworkFailuresOnly =>
        LET calls == Len(ai.excs)
        IN /\ calls <= ai.max_retries
           /\ \A i \in 1..Len(ai.sleeps) : ai.sleeps[i] = Pow2(i - 1)
           /\ ai.pc = "sleeping" => Len(ai.sleeps) = calls - 1 /\ ai.wait = Pow2(calls - 1)
           /\ ai.pc = "calling" /\ calls < ai.max_retries => Len(ai.sleeps) = calls
           /\ ai.pc = "returned" =>
                 /\ ai.excs[calls] = ""
                 /\ Len(ai.sleeps) = calls - 1
                 /\ ai.content = ai.events[calls].body
                 /\ ai.raised = ""
           /\ ai.pc = "raised" =>
                 /\ calls = ai.max_retries
                 /\ Len(ai.sleeps) = (IF calls = 0 THEN 0 ELSE calls - 1)
                 /\ ai.raised = "AIAnalysisException"
                 /\ ai.message = "exhausted"

C21_Witness ==
    /\ NetworkFailuresOnly
    /\ ai.pc = "returned"
    /\ ai.max_retries = 4
    /\ ai.sleeps = <<1, 2, 4>>
    /\ Len(ai.excs) = 4
    /\ ai.content = "c2"

\* The exceptions of a request that the wrapper is not to retry.
NotRetried == {"AIAnalysisException", "APIError", "ValueError", "TypeError"}

\* C22: a failure that is not to be retried ends the wrapper where it
\* happens: AIAnalysisException reaches the caller, no sleep and no call
\* follows it, and when it is the failure of the first call the wrapper has
\* made exactly one call and has not slept, whatever max_retries >= 1 is.
C22_NotRetriedFailsAtOnce ==
    LET calls == Len(ai.excs)
    IN calls >= 1 /\ ai.excs[calls] \in NotRetried =>
          /\ ai.pc = "raised"
          /\ ai.raised = "AIAnalysisException"
          /\ ai.message # "exhausted"
          /\ Len(ai.sleeps) = calls - 1
          /\ \A i \in 1..(calls - 1) : ai.excs[i] \notin NotRetried \cup {""}

C22_Witness ==
    /\ ai.max_retries = 4
    /\ Len(ai.events) = 1
    /\ ai.events[1].name = "http_401"
    /\ ai.pc = "raised"
    /\ ai.raised = "AIAnalysisException"
    /\ ai.sleeps = <<>>

\* C23: a call of extract_test_points that follows a successful call with
\* the same requirement text (one model, no time between them) calls the
\* model provider no more and returns the result of the first.
C23_SecondCallServedFromCache ==
    \A i \in 1..Len(az.history), j \in 1..Len(az.history) :
        i < j /\ az.history[i].ok /\ az.history[j].text = az.history[i].text =>
            /\ az.history[j].chats = 0
            /\ az.history[j].ok
            /\ az.history[j].result = az.history[i].result

\* The places of a call in steps.
Places(call) == {i \in 1..Len(steps) : steps[i] = call}

\* C24: in an attempt, and on a page of a PDF, preprocess_image has
\* returned before an engine is called, and _merge_results is the last call,
\* made after every engine the constructor enabled was called; a request
\* writes the cache at most once, as its last step, and has looked the
\* cache up before its first attempt, page or degraded pass.
C24_StageOrder ==
    /\ fallbacks = 0 =>
          /\ \A i \in Places("paddle") \cup Places("tesseract") :
                \E j \in Places("preprocess") : j < i
          /\ \A i \in Places("merge") :
                /\ i = Len(steps)
                /\ paddle_ocr => \E j \in Places("paddle") : j < i
                /\ tesseract_available => \E j \in Places("tesseract") : j < i
    /\ cache_writes <= 1
    /\ cache_writes = 1 => pc = "done" /\ text # <<>>
    /\ attempts_made >= 1 \/ fallbacks >= 1 \/ page_texts # <<>> \/ pc = "pdf_page" =>
          cache_reads = 1 /\ Len(keys_used) >= 1

C24_Witness ==
    /\ pc = "done"
    /\ cache_reads = 1
    /\ cache_writes = 1
    /\ attempts_made = 2
    /\ fallbacks = 0
    /\ steps = <<"imread", "preprocess", "paddle", "tesseract", "merge">>

\* C25: the key a request writes its text under is the key it looked up,
\* whatever happens to the bytes of the file while the request runs.
C25_KeyComputedOnce ==
    cache_writes = 1 => Len(keys_used) = 2 /\ keys_used[2] = keys_used[1]

\* A request is running.
Running == pc \in {"lookup", "attempting", "sleeping", "degrading", "store"}

PaddleFoundNothing == _paddle_ocr(TRUE, [raises |-> FALSE, texts |-> <<>>])

TesseractFoundNothing == _tesseract_ocr(TRUE, [raises |-> FALSE, text |-> <<>>])

\* C27: the value an engine call hands to the fusion when the engine raised
\* is never the value it hands over when the engine ran and found no text.
C27_FailureDistinguishable ==
    /\ paddle_call = "raised" => paddle_result # PaddleFoundNothing
    /\ tesseract_call = "raised" => tesseract_result # TesseractFoundNothing

\* C28: an image request with max_retries >= 1 whose library calls all
\* return or raise ends, returning a text or raising; until then it has
\* started at most max_retries attempts, slept at most max_retries - 1
\* times and run at most one degraded pass, and it starts no attempt once
\* it has a text or has entered the degraded pass.
C28_ImageExtractionTerminates ==
    /\ [](Running => /\ max_retries >= 1
                     /\ attempts_made <= max_retries
                     /\ Len(sleeps) <= max_retries - 1
                     /\ fallbacks <= 1)
    /\ [](pc \in {"done", "failed"} => /\ attempts_made <= max_retries
                                       /\ Len(sleeps) <= max_retries - 1
                                       /\ fallbacks <= 1)
    /\ [][attempts_made' = attempts_made + 1 =>
             /\ pc = "attempting"
             /\ fallbacks = 0
             /\ text = <<>>]_vars
    /\ [][(pc \in {"store", "degrading"}) => (pc' \in {"store", "done", "failed"})]_vars
    /\ (pc = "lookup") ~> (pc \in {"done", "failed"})

C28_Witness ==
    /\ pc = "failed"
    /\ error = "all_engines_failed"
    /\ max_retries = 4
    /\ attempts_made = 4
    /\ sleeps = <<1, 2, 4>>
    /\ fallbacks = 1

\* The request is for an image, has passed the validation and has missed
\* the cache.
ImageRequestPastLookup ==
    /\ cache_reads = 1
    /\ pc \notin {"idle", "lookup"}
    /\ Lower(file_path.suffix) # <<".", "p", "d", "f">>
    /\ ~(pc = "done" /\ attempts_made = 0 /\ fallbacks = 0)

\* C29: an image request that passed the validation and missed the cache
\* does not fail before it has run an attempt, whatever max_retries is.
C29_AttemptBeforeFailure ==
    ImageRequestPastLookup /\ pc = "failed" => attempts_made >= 1

\* C30: a lookup that runs at the same time as another lookup of the same
\* cache file, or as the sweep, does not raise because the file it saw to
\* exist has been removed before its open or its unlink.
C30_RacingLookupsMiss ==
    \A p \in Procs :
        cm_procs[p].op = "get" /\ cm_procs[p].pc = "done" =>
            cm_procs[p].raised # "FileNotFoundError"
====
